---- MODULE Spec2Model ----
(***************************************************************************)
(* aivoice: an HTTP gateway in front of an external text-to-speech and     *)
(* speech-to-text provider.  Two FastAPI applications are modelled:        *)
(*   src/server.py        /speak /tts /stt /whisper, CORS, service key     *)
(*   src/app/main.py      /speak in proxy mode or local mode               *)
(*   src/app/tts_engine.py  the local synthesis used by app/main.py        *)
(* A string the code slices (text, an origin list) is a sequence of        *)
(* tokens; a token is one character or an indivisible run of characters    *)
(* that holds no space, slash, comma or star.                              *)
(***************************************************************************)
EXTENDS Naturals, Sequences, FiniteSets

VARIABLES
    AIVOICE_API_KEY,        \* server.py:33
    OPENAI_API_KEY,         \* server.py:16, tts_engine.py:10
    client,                 \* server.py:35
    OPENVOICE_UPSTREAM_URL, \* main.py:70 (environment, read per request)
    ALLOWED_ORIGINS_ENV,    \* server.py:32
    origins,                \* server.py:82
    openai_api_key,         \* the legacy SDK's process-wide openai.api_key
    req                     \* the requests in flight, by slot

vars == <<AIVOICE_API_KEY, OPENAI_API_KEY, client, OPENVOICE_UPSTREAM_URL,
          ALLOWED_ORIGINS_ENV, origins, openai_api_key, req>>

NULL == "None"

-----------------------------------------------------------------------------
(* Bounds *)

\* longest ALLOWED_ORIGINS value, in tokens
MaxEnvLen == 4

-----------------------------------------------------------------------------
(* str methods *)

RECURSIVE lstrip(_, _)
lstrip(s, chars) ==
    IF s # <<>> /\ Head(s) \in chars THEN lstrip(Tail(s), chars) ELSE s

RECURSIVE rstrip(_, _)
rstrip(s, chars) ==
    IF s # <<>> /\ s[Len(s)] \in chars THEN rstrip(SubSeq(s, 1, Len(s) - 1), chars) ELSE s

Whitespace == {" "}

strip(s) == rstrip(lstrip(s, Whitespace), Whitespace)

\* s.split(","): the pieces between commas, empty pieces kept
RECURSIVE split(_, _)
split(s, cur) ==
    IF s = <<>> THEN <<cur>>
    ELSE IF Head(s) = "," THEN <<cur>> \o split(Tail(s), <<>>)
    ELSE split(Tail(s), Append(cur, Head(s)))

SeqToSet(s) == {s[i] : i \in 1..Len(s)}

-----------------------------------------------------------------------------
(* server.py: CORS origins *)

DEFAULT_ALLOWED_ORIGINS ==
    << <<"https://mufasa-knowledge-bank.onrender.com">>,
       <<"https://prince-of-pan-africa.onrender.com">>,
       <<"https://mufasafitsite.onrender.com">>,
       <<"http://localhost:3000">>,
       <<"http://localhost:5173">>,
       <<"http://127.0.0.1:5173">> >>

normalize_origin(o) == rstrip(strip(o), {"/"})

RECURSIVE NormalizeAll(_)
NormalizeAll(xs) ==
    IF xs = <<>> THEN <<>>
    ELSE LET n == normalize_origin(Head(xs))
         IN  (IF n # <<>> THEN <<n>> ELSE <<>>) \o NormalizeAll(Tail(xs))

\* the "merge unique" loop: append each origin not yet in merged
RECURSIVE MergeUnique(_, _)
MergeUnique(xs, merged) ==
    IF xs = <<>> THEN merged
    ELSE MergeUnique(Tail(xs),
                     IF Head(xs) \in SeqToSet(merged) THEN merged
                     ELSE Append(merged, Head(xs)))

env_list(env) == IF env # <<>> THEN NormalizeAll(split(env, <<>>)) ELSE <<>>

build_origins_env_wins(env) ==
    LET defaults == NormalizeAll(DEFAULT_ALLOWED_ORIGINS)
    IN  IF <<"*">> \in SeqToSet(env_list(env)) THEN << <<"*">> >>
        ELSE IF env_list(env) # <<>> THEN MergeUnique(env_list(env), <<>>)
        ELSE MergeUnique(defaults, <<>>)

build_origins(env) ==
    LET defaults == NormalizeAll(DEFAULT_ALLOWED_ORIGINS)
    IN  IF <<"*">> \in SeqToSet(env_list(env)) THEN << <<"*">> >>
        ELSE MergeUnique(defaults \o env_list(env), <<>>)

\* the tokens an ALLOWED_ORIGINS value is drawn from
EnvTokens == {" ", "/", ",", "*", "http://localhost:3000", "https://example.org"}

EnvStrings == UNION {[1..n -> EnvTokens] : n \in 0..MaxEnvLen}

NotLoaded == <<"not loaded">>

InitOrigins ==
    /\ ALLOWED_ORIGINS_ENV \in EnvStrings
    /\ origins = NotLoaded
    /\ AIVOICE_API_KEY = ""
    /\ OPENAI_API_KEY = ""
    /\ client = NULL
    /\ OPENVOICE_UPSTREAM_URL = ""
    /\ openai_api_key = NULL
    /\ req = <<>>

\* server.py:82, run once when the module is imported
LoadOrigins ==
    /\ origins = NotLoaded
    /\ origins' = build_origins(ALLOWED_ORIGINS_ENV)
    /\ UNCHANGED <<AIVOICE_API_KEY, OPENAI_API_KEY, client, OPENVOICE_UPSTREAM_URL,
                   ALLOWED_ORIGINS_ENV, openai_api_key, req>>

NextOrigins == LoadOrigins

SpecOrigins == InitOrigins /\ [][NextOrigins]_vars

\* C7: build_origins returns exactly ["*"] when a normalized entry of the
\* ALLOWED_ORIGINS list is "*"; otherwise the result starts with every default
\* origin in its order, then holds the non-empty normalized environment origins
\* in the order of their first occurrence, with no duplicate and no empty entry.
EnvPieces == split(ALLOWED_ORIGINS_ENV, <<>>)

EnvEntries == {normalize_origin(EnvPieces[i]) : i \in 1..Len(EnvPieces)} \ {<<>>}

FirstPiece(o) ==
    CHOOSE i \in 1..Len(EnvPieces) :
        /\ normalize_origin(EnvPieces[i]) = o
        /\ \A j \in 1..(i - 1) : normalize_origin(EnvPieces[j]) # o

-----------------------------------------------------------------------------
(* Requests and responses *)

\* x or d, for a str or None
Or(x, d) == IF x = NULL \/ x = "" THEN d ELSE x

\* str.lower() on the format values in use
lower(s) ==
    CASE s = "WAV" -> "wav"
      [] s = "MP3" -> "mp3"
      [] OTHER -> s

OPENAI_TTS_MODEL == "gpt-4o-mini-tts"

OPENAI_TTS_VOICE == "alloy"

\* what the provider or the upstream raised, as str(e)
ProviderError == "provider error"

\* the audio format the speech API produces when the call names none
ProviderDefaultFormat == "mp3"

NoResponse == [kind |-> NULL, status |-> 0, ctype |-> NULL, detail |-> <<>>, body |-> NULL]

Idle ==
    [pc |-> "idle", app |-> NULL, path |-> NULL, method |-> NULL, header |-> NULL,
     text |-> <<>>, voice |-> NULL, format |-> NULL, speed |-> NULL, pitch |-> NULL,
     file |-> NULL,
     calls |-> <<>>, sdk |-> NULL, out_fmt |-> NULL, provider |-> NULL,
     resp |-> NoResponse]

Request(app, path, method, header, text, voice, format, speed, pitch, file) ==
    [Idle EXCEPT !.pc = "received", !.app = app, !.path = path, !.method = method,
                 !.header = header, !.text = text, !.voice = voice, !.format = format,
                 !.speed = speed, !.pitch = pitch, !.file = file]

Done(q, resp) == [q EXCEPT !.pc = "done", !.resp = resp]

HTTPException(q, status_code, detail) ==
    Done(q, [kind |-> "http", status |-> status_code, ctype |-> "application/json",
             detail |-> detail, body |-> NULL])

StreamingResponse(q, content, media_type) ==
    Done(q, [kind |-> "http", status |-> 200, ctype |-> media_type,
             detail |-> <<>>, body |-> content])

JSONResponse(q, content) ==
    Done(q, [kind |-> "http", status |-> 200, ctype |-> "application/json",
             detail |-> <<>>, body |-> content])

\* a function of tts_engine.py raising, or returning bytes, to its caller
Raise(q, message) ==
    Done(q, [kind |-> "raise", status |-> 0, ctype |-> NULL,
             detail |-> <<message>>, body |-> NULL])

Return(q, content) ==
    Done(q, [kind |-> "return", status |-> 0, ctype |-> NULL,
             detail |-> <<>>, body |-> content])

\* the handler blocks in one call to the provider (or the upstream)
Calling(q, api, voice, input, format) ==
    [q EXCEPT !.pc = "calling",
              !.calls = Append(@, [api |-> api, voice |-> voice, input |-> input,
                                   format |-> format])]

LastCall(q) == q.calls[Len(q.calls)]

\* the bytes a successful speech call returns, named by their audio format
SpeechBytes(call) == Or(call.format, ProviderDefaultFormat)

-----------------------------------------------------------------------------
(* server.py *)

\* 0: passed; else the status of the HTTPException raised
_require_client == IF client = NULL THEN 500 ELSE 0

_require_service_key(method, header) ==
    IF method = "OPTIONS" THEN 0
    ELSE IF AIVOICE_API_KEY # "" /\ header # AIVOICE_API_KEY THEN 401
    ELSE 0

_mime(fmt) ==
    LET f == lower(Or(fmt, "mp3"))
    IN  IF f = "mp3" THEN "audio/mpeg" ELSE "audio/wav"

\* the request body model: format is Optional[Literal["mp3", "wav"]]
SpeakRequest(q) == q.format \in {NULL, "mp3", "wav"}

\* FastAPI answers 422 before the handler runs when the body does not validate
RequestValidationError(q) ==
    HTTPException(q, 422, <<"validation error">>)

\* speak testing req.text without strip()
speak_no_strip(q) ==
    IF _require_service_key(q.method, q.header) # 0
    THEN HTTPException(q, 401, <<"Invalid X-AIVOICE-KEY">>)
    ELSE IF _require_client # 0
    THEN HTTPException(q, 500, <<"OPENAI_API_KEY not configured">>)
    ELSE IF q.text = <<>>
    THEN HTTPException(q, 400, <<"text required">>)
    ELSE Calling(q, "audio.speech.create", Or(q.voice, OPENAI_TTS_VOICE),
                 strip(q.text), NULL)

speak(q) ==
    IF _require_service_key(q.method, q.header) # 0
    THEN HTTPException(q, 401, <<"Invalid X-AIVOICE-KEY">>)
    ELSE IF _require_client # 0
    THEN HTTPException(q, 500, <<"OPENAI_API_KEY not configured">>)
    ELSE LET text == strip(q.text)
         IN  IF text = <<>>
             THEN HTTPException(q, 400, <<"text required">>)
             ELSE Calling(q, "audio.speech.create", Or(q.voice, OPENAI_TTS_VOICE),
                          text, NULL)

\* speak calling the provider a second time when the first call raises
speak_resume_retry(q, outcome) ==
    LET fmt == lower(Or(q.format, "mp3"))
        p == [q EXCEPT !.provider = outcome]
    IN  IF outcome = "ok"
        THEN StreamingResponse(p, SpeechBytes(LastCall(q)), _mime(fmt))
        ELSE IF Len(q.calls) < 2
        THEN Calling(q, "audio.speech.create", LastCall(q).voice, LastCall(q).input, NULL)
        ELSE HTTPException(p, 500, <<"TTS failed: ", ProviderError>>)

\* the rest of speak, once the provider call has returned or raised
speak_resume(q, outcome) ==
    LET fmt == lower(Or(q.format, "mp3"))
        p == [q EXCEPT !.provider = outcome]
    IN  IF outcome = "ok"
        THEN StreamingResponse(p, SpeechBytes(LastCall(q)), _mime(fmt))
        ELSE HTTPException(p, 500, <<"TTS failed: ", ProviderError>>)

\* an alias that re-implements speak and leaves the service key check out
tts_no_key(q) ==
    IF _require_client # 0
    THEN HTTPException(q, 500, <<"OPENAI_API_KEY not configured">>)
    ELSE IF strip(q.text) = <<>>
    THEN HTTPException(q, 400, <<"text required">>)
    ELSE Calling(q, "audio.speech.create", Or(q.voice, OPENAI_TTS_VOICE),
                 strip(q.text), NULL)

tts(q) == speak(q)

\* stt reading the upload before it checks the service key and the client
stt_reads_first(q) ==
    IF q.file = ""
    THEN HTTPException(q, 400, <<"empty audio">>)
    ELSE IF _require_service_key(q.method, q.header) # 0
    THEN HTTPException(q, 401, <<"Invalid X-AIVOICE-KEY">>)
    ELSE IF _require_client # 0
    THEN HTTPException(q, 500, <<"OPENAI_API_KEY not configured">>)
    ELSE Calling(q, "audio.transcriptions.create", NULL, <<q.file>>, NULL)

stt(q) ==
    IF _require_service_key(q.method, q.header) # 0
    THEN HTTPException(q, 401, <<"Invalid X-AIVOICE-KEY">>)
    ELSE IF _require_client # 0
    THEN HTTPException(q, 500, <<"OPENAI_API_KEY not configured">>)
    ELSE IF q.file = ""
    THEN HTTPException(q, 400, <<"empty audio">>)
    ELSE Calling(q, "audio.transcriptions.create", NULL, <<q.file>>, NULL)

stt_resume(q, outcome) ==
    LET p == [q EXCEPT !.provider = outcome]
    IN  IF outcome = "ok"
        THEN JSONResponse(p, "transcript")
        ELSE HTTPException(p, 500, <<"STT failed: ", ProviderError>>)

whisper(q) == stt(q)

-----------------------------------------------------------------------------
(* app/tts_engine.py *)

get_audio_mime(fmt) ==
    LET f == lower(Or(fmt, ""))
    IN  IF f = "mp3" THEN "audio/mpeg"
        ELSE IF f = "wav" THEN "audio/wav"
        ELSE "application/octet-stream"

\* sdk: "modern" when `from openai import OpenAI` succeeds, "legacy" when it
\* raises ImportError and the module-level openai interface is used instead
_openai_tts_bytes(q, text, voice, out_fmt, sdk) ==
    IF OPENAI_API_KEY = ""
    THEN Raise(q, "Missing OPENAI_API_KEY in environment")
    ELSE LET chosen_voice == Or(voice, "alloy")
             preferred_format == IF out_fmt \notin {"mp3", "wav"} THEN "mp3" ELSE out_fmt
             p == [q EXCEPT !.sdk = sdk, !.out_fmt = out_fmt]
         IN  IF sdk = "modern"
             THEN Calling(p, "audio.speech.create", chosen_voice, text, preferred_format)
             ELSE Calling(p, "openai.audio.speech.create", chosen_voice, text, NULL)

\* the mp3 -> wav conversion: ffmpeg absent, present and working, or failing
Convert(p, audio_bytes, ffmpeg) ==
    IF ffmpeg = "absent" THEN Return(p, audio_bytes)
    ELSE IF ffmpeg = "ok" THEN Return(p, "wav")
    ELSE Raise(p, "ffmpeg failed")

\* the rest of _openai_tts_bytes, once the speech call has returned or raised
_openai_tts_bytes_resume(q, outcome, ffmpeg) ==
    LET p == [q EXCEPT !.provider = outcome]
        audio_bytes == SpeechBytes(LastCall(q))
    IN  IF outcome # "ok" THEN Raise(p, ProviderError)
        ELSE IF q.sdk = "modern"
        THEN IF q.out_fmt = "wav" /\ LastCall(q).format = "mp3"
             THEN Convert(p, audio_bytes, ffmpeg)
             ELSE Return(p, audio_bytes)
        ELSE IF q.out_fmt = "wav"
             THEN Convert(p, audio_bytes, ffmpeg)
             ELSE Return(p, audio_bytes)

synthesize_audio_bytes(q, text, voice, fmt, sdk) ==
    LET t == strip(text)
        f == lower(Or(fmt, "mp3"))
    IN  IF t = <<>> THEN Raise(q, "text is required")
        ELSE _openai_tts_bytes(q, t, voice,
                               IF f \notin {"mp3", "wav"} THEN "mp3" ELSE f, sdk)

-----------------------------------------------------------------------------
(* app/main.py *)

\* except Exception: a raise inside the try block becomes a 500
except_Exception(e) ==
    IF e.pc = "done" /\ e.resp.kind = "raise"
    THEN HTTPException(e, 500, <<"TTS error: ">> \o e.resp.detail)
    ELSE e

main_speak(q, sdk) ==
    LET text == strip(q.text)
        fmt == lower(Or(q.format, "mp3"))
    IN  IF text = <<>>
        THEN HTTPException(q, 400, <<"text is required">>)
        ELSE IF fmt \notin {"mp3", "wav"}
        THEN HTTPException(q, 400, <<"format must be mp3 or wav">>)
        ELSE IF OPENVOICE_UPSTREAM_URL # ""
        THEN Calling(q, "upstream.post", q.voice, q.text, q.format)
        ELSE except_Exception(synthesize_audio_bytes(q, text, q.voice, fmt, sdk))

\* proxy mode, once the upstream has answered: content_type and content are the
\* upstream's Content-Type header (None when it sends none) and body
main_speak_proxy_resume(q, outcome, content_type, content) ==
    LET fmt == lower(Or(q.format, "mp3"))
        p == [q EXCEPT !.provider = outcome]
    IN  IF outcome = "ok"
        THEN StreamingResponse(p, content, Or(content_type, get_audio_mime(fmt)))
        ELSE IF outcome = "http_error"
        THEN HTTPException(p, 502, <<"Upstream error: ", ProviderError>>)
        ELSE HTTPException(p, 500, <<"TTS error: ", ProviderError>>)

\* local mode, once the speech call has returned or raised
main_speak_local_resume(q, outcome, ffmpeg) ==
    LET fmt == lower(Or(q.format, "mp3"))
        e == _openai_tts_bytes_resume(q, outcome, ffmpeg)
    IN  IF e.resp.kind = "raise"
        THEN except_Exception(e)
        ELSE StreamingResponse(e, e.resp.body, get_audio_mime(fmt))

-----------------------------------------------------------------------------
(* The state machine *)

Slots == {"r1", "r2"}

Texts == {<<>>, <<" ">>, <<" ", "hello", " ">>}

Voices == {NULL, "nova"}

Formats == {NULL, "mp3", "wav", "WAV", "ogg"}

Headers == {NULL, "secret", "wrong"}

\* None: the multipart field is missing; "": an empty upload
Files == {NULL, "", "RIFF"}

Speeds == {NULL, "1.5"}

Pitches == {NULL, "2.0"}

Config == <<AIVOICE_API_KEY, OPENAI_API_KEY, client, OPENVOICE_UPSTREAM_URL,
            ALLOWED_ORIGINS_ENV, origins>>

Init ==
    /\ OPENAI_API_KEY \in {"sk-test", ""}
    /\ client = IF OPENAI_API_KEY # "" THEN "OpenAI" ELSE NULL
    /\ AIVOICE_API_KEY \in {"", "secret"}
    /\ OPENVOICE_UPSTREAM_URL \in {"", "http://upstream"}
    /\ ALLOWED_ORIGINS_ENV = <<>>
    /\ origins = build_origins(ALLOWED_ORIGINS_ENV)
    /\ openai_api_key = NULL
    /\ req = [r \in Slots |-> Idle]

Respond(r, q) ==
    /\ req' = [req EXCEPT ![r] = q]
    /\ UNCHANGED <<Config, openai_api_key>>

\* POST /speak of server.py
Speak(r) ==
    /\ req[r].pc = "idle"
    /\ \E header \in Headers, text \in Texts, voice \in Voices, format \in Formats :
          LET q == Request("server", "/speak", "POST", header, text, voice, format,
                           NULL, NULL, NULL)
          IN  Respond(r, IF SpeakRequest(q) THEN speak(q) ELSE RequestValidationError(q))

\* POST /tts of server.py
Tts(r) ==
    /\ req[r].pc = "idle"
    /\ \E header \in Headers, text \in Texts, voice \in Voices, format \in Formats :
          LET q == Request("server", "/tts", "POST", header, text, voice, format,
                           NULL, NULL, NULL)
          IN  Respond(r, IF SpeakRequest(q) THEN tts(q) ELSE RequestValidationError(q))

\* POST /stt of server.py; file: UploadFile = File(...) is required
Stt(r) ==
    /\ req[r].pc = "idle"
    /\ \E header \in Headers, file \in Files :
          LET q == Request("server", "/stt", "POST", header, <<>>, NULL, NULL,
                           NULL, NULL, file)
          IN  Respond(r, IF file # NULL THEN stt(q) ELSE RequestValidationError(q))

\* POST /whisper of server.py
Whisper(r) ==
    /\ req[r].pc = "idle"
    /\ \E header \in Headers, file \in Files :
          LET q == Request("server", "/whisper", "POST", header, <<>>, NULL, NULL,
                           NULL, NULL, file)
          IN  Respond(r, IF file # NULL THEN whisper(q) ELSE RequestValidationError(q))

\* OPTIONS on a write path of server.py: the routes accept POST only, so the
\* CORS middleware answers a preflight (200, or 400 when it refuses it) and the
\* router answers 405 to any other OPTIONS request; no handler runs
Options(r) ==
    /\ req[r].pc = "idle"
    /\ \E path \in {"/speak", "/tts", "/stt", "/whisper"}, header \in Headers,
          status \in {200, 400, 405} :
          LET q == Request("server", path, "OPTIONS", header, <<>>, NULL, NULL,
                           NULL, NULL, NULL)
          IN  Respond(r, Done(q, [kind |-> "http", status |-> status,
                                  ctype |-> "text/plain", detail |-> <<>>,
                                  body |-> NULL]))

\* client.audio.speech.create returns or raises, and speak finishes
SpeechReturns(r) ==
    /\ req[r].pc = "calling"
    /\ req[r].app = "server"
    /\ req[r].path \in {"/speak", "/tts"}
    /\ \E outcome \in {"ok", "error"} : Respond(r, speak_resume(req[r], outcome))

\* client.audio.transcriptions.create returns or raises, and stt finishes
TranscriptionReturns(r) ==
    /\ req[r].pc = "calling"
    /\ req[r].app = "server"
    /\ req[r].path \in {"/stt", "/whisper"}
    /\ \E outcome \in {"ok", "error"} : Respond(r, stt_resume(req[r], outcome))

\* a call into tts_engine.py: the legacy path assigns openai.api_key
Engine(r, q) ==
    /\ req' = [req EXCEPT ![r] = q]
    /\ openai_api_key' = IF q.pc = "calling" /\ q.sdk = "legacy"
                         THEN OPENAI_API_KEY ELSE openai_api_key
    /\ UNCHANGED Config

\* POST /speak of app/main.py
MainSpeak(r) ==
    /\ req[r].pc = "idle"
    /\ \E text \in Texts, voice \in Voices, format \in Formats, speed \in Speeds,
          pitch \in Pitches, sdk \in {"modern", "legacy"} :
          Engine(r, main_speak(Request("main", "/speak", "POST", NULL, text, voice,
                                       format, speed, pitch, NULL), sdk))

\* the upstream of proxy mode answers, or the post raises
UpstreamReturns(r) ==
    /\ req[r].pc = "calling"
    /\ req[r].app = "main"
    /\ LastCall(req[r]).api = "upstream.post"
    /\ \E outcome \in {"ok", "http_error", "error"},
          content_type \in {NULL, "audio/mpeg", "audio/wav"},
          content \in {"mp3", "wav"} :
          Respond(r, main_speak_proxy_resume(req[r], outcome, content_type, content))

\* a direct call of synthesize_audio_bytes (tts_engine.py's entry point)
Synthesize(r) ==
    /\ req[r].pc = "idle"
    /\ \E text \in Texts, voice \in Voices, format \in Formats,
          sdk \in {"modern", "legacy"} :
          LET q == Request("engine", "synthesize_audio_bytes", NULL, NULL, text,
                           voice, format, NULL, NULL, NULL)
          IN  Engine(r, synthesize_audio_bytes(q, text, voice, format, sdk))

\* the speech call of tts_engine.py returns or raises
SynthesisReturns(r) ==
    /\ req[r].pc = "calling"
    /\ req[r].app \in {"main", "engine"}
    /\ LastCall(req[r]).api # "upstream.post"
    /\ \E outcome \in {"ok", "error"}, ffmpeg \in {"absent", "ok", "failed"} :
          Respond(r, IF req[r].app = "main"
                     THEN main_speak_local_resume(req[r], outcome, ffmpeg)
                     ELSE _openai_tts_bytes_resume(req[r], outcome, ffmpeg))

\* the response has been sent; the slot takes the next request
Finish(r) ==
    /\ req[r].pc = "done"
    /\ Respond(r, Idle)

\* one request at a time, over both applications and the engine
Next ==
    \E r \in {"r1"} :
        \/ Speak(r) \/ Tts(r) \/ Stt(r) \/ Whisper(r) \/ Options(r)
        \/ SpeechReturns(r) \/ TranscriptionReturns(r)
        \/ MainSpeak(r) \/ UpstreamReturns(r)
        \/ Synthesize(r) \/ SynthesisReturns(r)
        \/ Finish(r)

Spec == Init /\ [][Next]_vars

\* two requests of server.py in flight together
InitPair == Init /\ OPENVOICE_UPSTREAM_URL = ""

NextPair ==
    \E r \in Slots :
        \/ Speak(r) \/ Tts(r) \/ Stt(r) \/ Whisper(r)
        \/ SpeechReturns(r) \/ TranscriptionReturns(r)

SpecPair == InitPair /\ [][NextPair]_vars

-----------------------------------------------------------------------------
(* Properties of the requests *)

\* a POST /speak or /tts request of either application, received
IsSpeak(q) ==
    /\ q.pc # "idle"
    /\ q.app \in {"server", "main"}
    /\ q.method = "POST"
    /\ q.path \in {"/speak", "/tts"}

Answered(q) == q.pc = "done" /\ q.resp.kind = "http"

KeyOk(q) == AIVOICE_API_KEY = "" \/ q.header = AIVOICE_API_KEY

RequestedFormat(q) == lower(Or(q.format, "mp3"))

\* C1 as stated: empty or whitespace-only text is answered 400 whatever the
\* other fields and the configuration are.
C1_EmptyTextAlways400 ==
    \A r \in Slots :
        (IsSpeak(req[r]) /\ req[r].pc = "done" /\ strip(req[r].text) = <<>>)
            => req[r].resp.status = 400

\* C1 as amended: empty or whitespace-only text never reaches the provider and
\* is never answered 200; app/main.py answers 400 whatever the other fields are;
\* server.py answers 422 when the body does not validate, else 401 when the
\* service key check fails, else 500 when no client is configured, else 400.
C1_EmptyTextRejected ==
    \A r \in Slots :
        (IsSpeak(req[r]) /\ strip(req[r].text) = <<>>) =>
            /\ Answered(req[r])
            /\ req[r].calls = <<>>
            /\ req[r].resp.status =
                  IF req[r].app = "main" THEN 400
                  ELSE IF req[r].format \notin {NULL, "mp3", "wav"} THEN 422
                  ELSE IF ~KeyOk(req[r]) THEN 401
                  ELSE IF OPENAI_API_KEY = "" THEN 500
                  ELSE 400

\* whitespace-only text on server.py, past the key and client checks
C1_Witness ==
    \E r \in Slots :
        /\ IsSpeak(req[r]) /\ req[r].app = "server"
        /\ req[r].text = <<" ">>
        /\ AIVOICE_API_KEY = "secret" /\ req[r].header = "secret"
        /\ req[r].format = "wav"
        /\ req[r].resp.status = 400

\* C2: a request to a write endpoint of server.py is answered 401 if and only
\* if a service key is configured, the method is not OPTIONS and the
\* X-AIVOICE-KEY header is absent or differs from the key.
C2_Unauthorized401Iff ==
    \A r \in Slots :
        (req[r].pc = "done" /\ req[r].app = "server") =>
            (req[r].resp.status = 401 <=>
                (AIVOICE_API_KEY # "" /\ req[r].method # "OPTIONS"
                    /\ req[r].header # AIVOICE_API_KEY))

\* C3: two requests of server.py with the same input, one to an endpoint and
\* one to its alias, make the same provider call, and with the same provider
\* outcome get the same response.
Alias(a, b) ==
    \/ {a.path, b.path} = {"/speak", "/tts"}
    \/ {a.path, b.path} = {"/stt", "/whisper"}

SameInput(a, b) ==
    /\ a.method = b.method /\ a.header = b.header /\ a.text = b.text
    /\ a.voice = b.voice /\ a.format = b.format /\ a.file = b.file

C3_AliasesAgree ==
    \A r1, r2 \in Slots :
        LET a == req[r1]
            b == req[r2]
        IN  (a.pc # "idle" /\ b.pc # "idle" /\ Alias(a, b) /\ SameInput(a, b)) =>
                /\ a.calls = b.calls
                /\ (a.pc = "done" /\ b.pc = "done" /\ a.provider = b.provider)
                      => a.resp = b.resp

\* /speak and /tts answered 200 for the same keyed input
C3_Witness ==
    /\ req["r1"].path = "/speak" /\ req["r2"].path = "/tts"
    /\ SameInput(req["r1"], req["r2"])
    /\ AIVOICE_API_KEY = "secret"
    /\ req["r1"].pc = "done" /\ req["r2"].pc = "done"
    /\ req["r1"].resp.status = 200 /\ req["r2"].resp.status = 200

\* C4: a 200 response to POST /speak carries exactly the MIME type of the
\* requested format: audio/mpeg for mp3 or no format, audio/wav for wav.
C4_ContentTypeMatchesFormat ==
    \A r \in Slots :
        (IsSpeak(req[r]) /\ Answered(req[r]) /\ req[r].resp.status = 200) =>
            \/ RequestedFormat(req[r]) = "mp3" /\ req[r].resp.ctype = "audio/mpeg"
            \/ RequestedFormat(req[r]) = "wav" /\ req[r].resp.ctype = "audio/wav"

\* C5: a format outside {mp3, wav} is rejected with 400 before any provider or
\* upstream call on every path, the direct call of synthesize_audio_bytes included.
C5_BadFormatRejected400 ==
    \A r \in Slots :
        (/\ req[r].pc # "idle"
         /\ req[r].path \in {"/speak", "/tts", "synthesize_audio_bytes"}
         /\ req[r].method # "OPTIONS"
         /\ RequestedFormat(req[r]) \notin {"mp3", "wav"}) =>
            /\ Answered(req[r])
            /\ req[r].resp.status = 400
            /\ req[r].calls = <<>>

\* C6: no request calls the provider (or the upstream) more than once, and a
\* /speak or /stt request whose call failed is answered 500 (502 for an HTTP
\* error of the upstream in proxy mode) with the provider's message, never 200.
C6_FailureIsTerminal ==
    \A r \in Slots :
        /\ Len(req[r].calls) <= 1
        /\ (/\ req[r].app \in {"server", "main"}
            /\ req[r].provider \notin {NULL, "ok"}) =>
               /\ Answered(req[r])
               /\ req[r].resp.status =
                     IF req[r].app = "main" /\ req[r].provider = "http_error"
                     THEN 502 ELSE 500
               /\ req[r].resp.detail[Len(req[r].resp.detail)] = ProviderError
               /\ req[r].resp.body = NULL

\* the speech call of server.py raised and the request was answered 500
C6_Witness ==
    \E r \in Slots :
        /\ req[r].app = "server" /\ req[r].path = "/speak"
        /\ req[r].provider = "error"
        /\ Len(req[r].calls) = 1
        /\ req[r].resp.status = 500

\* C8: processing a request leaves all module-level state unchanged: no handler
\* writes state that another request reads.
C8_NoSharedWrites ==
    [][Config' = Config /\ openai_api_key' = openai_api_key]_vars

\* C9: a request answered 401, 422, 400, or 500 for the missing client made no
\* provider or upstream call; server.py checks the service key, then the client,
\* then the input, so each answer implies the earlier checks passed and each
\* failing check decides the answer of a validated POST.
NotConfigured(q) ==
    q.resp.status = 500 /\ q.resp.detail = <<"OPENAI_API_KEY not configured">>

EmptyInput(q) ==
    IF q.path \in {"/speak", "/tts"} THEN strip(q.text) = <<>> ELSE q.file = ""

C10_BytesMatchContentType ==
    \A r \in Slots :
        (IsSpeak(req[r]) /\ Answered(req[r]) /\ req[r].resp.status = 200) =>
            \/ req[r].resp.ctype = "audio/mpeg" /\ req[r].resp.body = "mp3"
            \/ req[r].resp.ctype = "audio/wav" /\ req[r].resp.body = "wav"

====
